---- MODULE Spec2Model ----
(***************************************************************************)
(* Model of the bill ledger insertion engine of summa (bill_analyzer):     *)
(* the cell codec (ods_cells.py), the row builder (ods_rows.py), the sheet *)
(* locator (ods_sheets.py), the duplicate detector and the batch           *)
(* transaction manager (bill_inserter.py, file_utils.py).                  *)
(*                                                                         *)
(* Amounts are integers in thousandths of a currency unit (1.19 is 1190,   *)
(* 0.005 is 5, 0.01 is 10).  Calendar dates are integers month*100+day of  *)
(* the year 2024 (5 March is 305).                                         *)
(***************************************************************************)
EXTENDS Integers, Sequences, FiniteSets, TLC

VARIABLES
    file,        \* content of the ledger file config.ODS_FILE
    backup,      \* the backup file of the current call: [exists, content]
    doc,         \* the in-memory document of the current call
    pc,          \* position inside process_multiple_bills
    batch,       \* bills_data as supplied by the caller
    sorted,      \* sorted_bills
    i,           \* 1-based index of the next bill of sorted_bills
    raised,      \* the call has (re-)raised an exception to its caller
    loads,       \* number of load() calls made by the current call
    saves,       \* number of doc.save() calls made by the current call
    handed,      \* the bills handed to _insert_single_bill_data, in order
    fileBefore,  \* content of the ledger file when the current call started
    calls,       \* number of calls of process_multiple_bills made so far
    processed,   \* number of bills handed to the engine over all calls
    dupQuery,    \* last bill passed to check_duplicate_bill (0 = none)
    dupResult,   \* its result
    theCell,     \* a table cell that set_cell_value writes to
    written      \* the values written to it, in order

vars == <<file, backup, doc, pc, batch, sorted, i, raised, loads, saves,
          handed, fileBefore, calls, processed, dupQuery, dupResult,
          theCell, written>>

-----------------------------------------------------------------------------
(* Column layout, config.py *)
COL_DATE == 1
COL_STORE == 2
COL_ITEM == 3
COL_PRICE == 4
COL_TOTAL == 5

(* Bounds of the model *)
MaxCalls == 2
MaxProcessed == 3

-----------------------------------------------------------------------------
(* Python values.  A value is a number (k = "num", n in thousandths), a    *)
(* string (k = "str") or the decimal text of a number (k = "numtext").     *)
Num(n) == [k |-> "num", n |-> n, s |-> ""]
Str(s) == [k |-> "str", n |-> 0, s |-> s]
NumText(n) == [k |-> "numtext", n |-> n, s |-> ""]
Empty == Str("")

(* Python truthiness of a value: 0.0 and "" are false *)
Truthy(v) == IF v.k = "num" THEN v.n # 0
             ELSE IF v.k = "numtext" THEN TRUE
             ELSE v.s # ""

(* an absent numeric attribute *)
NoVal == 0 - 1

(* table.TableCell(): no attribute, no child *)
NewCell == [vt |-> "", val |-> NoVal, dval |-> "", fml |-> "",
            txt |-> Empty, sty |-> ""]

(* float(value.replace(",", ".")) of the strings the model uses: the       *)
(* number, or NoVal when float() raises ValueError                         *)
FloatOfString(s) ==
    CASE s = "1,19" -> 1190
      [] s = "2.5" -> 2500
      [] OTHER -> NoVal

(* value.replace(",", ".") of the formula strings the model uses *)
CommaToDot(s) ==
    CASE s = "=2*0,25" -> "=2*0.25"
      [] OTHER -> s

IsFormula(s) == s \in {"=2*0,25", "=2*0.25"}

(* _set_numeric_value *)
SetNumericValue(cell, n) ==
    [cell EXCEPT !.txt = NumText(n), !.vt = "float", !.val = n]

(* _set_formula_value *)
SetFormulaValue(cell, s) ==
    [cell EXCEPT !.txt = Empty, !.fml = CommaToDot(s), !.vt = "float"]

(* _set_string_value: numeric sniffing first, free text otherwise *)
SetStringValue(cell, s) ==
    IF FloatOfString(s) # NoVal
    THEN [cell EXCEPT !.txt = NumText(FloatOfString(s)), !.vt = "float",
                      !.val = FloatOfString(s)]
    ELSE [cell EXCEPT !.txt = Str(s), !.vt = "string"]

(* set_cell_value for the values bills carry (numbers and strings): the    *)
(* children are removed, the attributes of the previous content are not    *)
SetCellValue(cell, v) ==
    LET cleared == [cell EXCEPT !.txt = Empty] IN
    IF v.k = "num" THEN SetNumericValue(cleared, v.n)
    ELSE IF IsFormula(v.s) THEN SetFormulaValue(cleared, v.s)
    ELSE SetStringValue(cleared, v.s)

(* get_cell_value: value, then date-value, then the text content *)
GetCellValue(cell) ==
    IF cell.val # NoVal THEN Num(cell.val)
    ELSE IF cell.dval # "" THEN Str(cell.dval)
    ELSE cell.txt

(* clear_cell_completely: children and value attributes go, style stays *)
ClearCellCompletely(cell) ==
    [cell EXCEPT !.vt = "", !.val = NoVal, !.dval = "", !.fml = "",
                 !.txt = Empty]

(* new_cell.appendChild(text.P(text="")) *)
AppendEmptyP(cell) == [cell EXCEPT !.txt = Empty]

-----------------------------------------------------------------------------
(* Dates.  dparser.parse(s, dayfirst=True).date() of the date strings the   *)
(* model uses; BadDate stands for the ParserError the library raises.      *)
BadDate == 0 - 1

DParse(s) ==
    CASE s = "03.03.2024" -> 303
      [] s = "3.3.24" -> 303
      [] s = "05.03.2024" -> 305
      [] s = "5.3.24" -> 305
      [] s = "2024-03-17" -> 317
      [] s = "20.03.2024" -> 320
      [] s = "15.04.2024" -> 415
      [] OTHER -> BadDate

(* f"{date:%b} {date:%y}" *)
SheetNameOf(d) ==
    CASE d \div 100 = 3 -> "Mar 24"
      [] d \div 100 = 4 -> "Apr 24"
      [] OTHER -> "?"

(* date.strftime("%Y-%m-%d") *)
IsoFormat(d) ==
    CASE d = 303 -> "2024-03-03"
      [] d = 305 -> "2024-03-05"
      [] d = 317 -> "2024-03-17"
      [] d = 320 -> "2024-03-20"
      [] d = 415 -> "2024-04-15"
      [] OTHER -> "?"

(* parse_date of utils: the ISO string of a cell's date value, "" for None *)
ParseDateIso(v) ==
    IF v.k = "str" /\ DParse(v.s) # BadDate THEN IsoFormat(DParse(v.s)) ELSE ""

(* store.strip().lower() of the store names the model uses *)
Normalize(s) ==
    CASE s \in {"Edeka", " EDEKA "} -> "edeka"
      [] s = "Rewe" -> "rewe"
      [] s = "Aldi" -> "aldi"
      [] s = "Lidl" -> "lidl"
      [] OTHER -> s

-----------------------------------------------------------------------------
(* Rows and sheets.  A row is [cells, sty]; a sheet is a sequence of rows; *)
(* positions are 1-based: Python row index idx is position idx + 1 and     *)
(* Python cells[c] is cells[c + 1].  Position 0 stands for None (and for   *)
(* end_idx = -1).                                                          *)
Cell(row, c) == row.cells[c + 1]

(* find_sheet_by_name: the sheet's rows are d[name]; None when absent *)
HasSheet(d, name) == name \in DOMAIN d

(* find_date_row: first row whose date cell parses to the target date *)
RECURSIVE FindDateRowFrom(_, _, _)
FindDateRowFrom(rows, idx, target) ==
    IF idx > Len(rows) THEN 0
    ELSE IF Len(rows[idx].cells) <= COL_DATE
         THEN FindDateRowFrom(rows, idx + 1, target)
    ELSE LET v == GetCellValue(Cell(rows[idx], COL_DATE)) IN
         IF v.k = "str" /\ v.s # "" /\ DParse(v.s) = target
         THEN idx
         ELSE FindDateRowFrom(rows, idx + 1, target)

(* the last row, not the first, whose date cell parses to the target date *)
FindDateRowLast(rows, target) ==
    LET m == {p \in 1..Len(rows) :
                /\ Len(rows[p].cells) > COL_DATE
                /\ GetCellValue(Cell(rows[p], COL_DATE)).k = "str"
                /\ GetCellValue(Cell(rows[p], COL_DATE)).s # ""
                /\ DParse(GetCellValue(Cell(rows[p], COL_DATE)).s) = target}
    IN IF m = {} THEN 0 ELSE CHOOSE p \in m : \A o \in m : o <= p

FindDateRow(rows, target) == FindDateRowFrom(rows, 1, target)

(* the calendar date a row carries in its date column, BadDate if none *)
RowDate(row) ==
    IF Len(row.cells) <= COL_DATE THEN BadDate
    ELSE LET v == GetCellValue(Cell(row, COL_DATE)) IN
         IF v.k = "str" /\ v.s # "" THEN DParse(v.s) ELSE BadDate

(* find_chronological_insertion_point: first row dated strictly later *)
RECURSIVE ChronoFrom(_, _, _)
ChronoFrom(rows, idx, target) ==
    IF idx > Len(rows) THEN 0
    ELSE IF RowDate(rows[idx]) # BadDate /\ RowDate(rows[idx]) > target
         THEN idx
         ELSE ChronoFrom(rows, idx + 1, target)

FindChronologicalInsertionPoint(rows, dateStr) ==
    ChronoFrom(rows, 1, DParse(dateStr))

(* a row holds data: some cell of the date..total columns is non-empty *)
RowHasData(row) ==
    \E c \in COL_DATE..COL_TOTAL :
        c < Len(row.cells) /\ Truthy(GetCellValue(Cell(row, c)))

(* find_last_row: position of the last row holding data *)
RECURSIVE FindLastRowFrom(_, _)
FindLastRowFrom(rows, idx) ==
    IF idx = 0 THEN 0
    ELSE IF RowHasData(rows[idx]) THEN idx
    ELSE FindLastRowFrom(rows, idx - 1)

FindLastRow(rows) == FindLastRowFrom(rows, Len(rows))

-----------------------------------------------------------------------------
(* Duplicate detector, bill_inserter.py *)

(* _has_matching_date *)
HasMatchingDate(cells, targetIso) ==
    IF Len(cells) <= COL_DATE THEN FALSE
    ELSE LET v == GetCellValue(cells[COL_DATE + 1]) IN
         IF ~Truthy(v) THEN FALSE
         ELSE IF ParseDateIso(v) = "" THEN FALSE
         ELSE ParseDateIso(v) = targetIso

(* the store scan with the start row as its only candidate *)
StoreAtStartOnly(rows, start, store) ==
    IF /\ start <= Len(rows)
       /\ Len(rows[start].cells) > COL_STORE
       /\ Truthy(GetCellValue(Cell(rows[start], COL_STORE)))
       /\ Normalize(GetCellValue(Cell(rows[start], COL_STORE)).s) = store
    THEN start ELSE 0

(* _get_store_from_bill_start *)
RECURSIVE GetStoreFrom(_, _, _, _)
GetStoreFrom(rows, start, idx, store) ==
    IF idx > Len(rows) THEN 0
    ELSE LET cells == rows[idx].cells IN
         IF Len(cells) <= COL_STORE
         THEN GetStoreFrom(rows, start, idx + 1, store)
         ELSE IF start # idx /\ Truthy(GetCellValue(cells[COL_DATE + 1]))
         THEN 0
         ELSE LET found == GetCellValue(cells[COL_STORE + 1]) IN
              IF ~Truthy(found)
              THEN GetStoreFrom(rows, start, idx + 1, store)
              ELSE IF Normalize(found.s) # store
              THEN GetStoreFrom(rows, start, idx + 1, store)
              ELSE idx

GetStoreFromBillStart(rows, start, store) ==
    GetStoreFrom(rows, start, start, store)

(* extract_price_number followed by is_number and float(): the number a    *)
(* total cell's value parses to, NoVal when it is not a number             *)
PriceNumber(v) == IF v.k \in {"num", "numtext"} THEN v.n ELSE NoVal

(* float(found_total) != total *)
TotalDiffers(found, total) == found # total

(* _find_total_in_bill_group *)
RECURSIVE FindTotalFrom(_, _, _, _)
FindTotalFrom(rows, start, idx, total) ==
    IF idx > Len(rows) THEN 0
    ELSE LET cells == rows[idx].cells IN
         IF Len(cells) <= COL_TOTAL
         THEN FindTotalFrom(rows, start, idx + 1, total)
         ELSE IF start # idx /\ (Truthy(GetCellValue(cells[COL_DATE + 1]))
                                 \/ Truthy(GetCellValue(cells[COL_STORE + 1])))
         THEN 0
         ELSE LET found == GetCellValue(cells[COL_TOTAL + 1]) IN
              IF ~Truthy(found)
              THEN FindTotalFrom(rows, start, idx + 1, total)
              ELSE IF PriceNumber(found) = NoVal
              THEN FindTotalFrom(rows, start, idx + 1, total)
              ELSE IF TotalDiffers(PriceNumber(found), total) THEN 0
              ELSE idx

FindTotalInBillGroup(rows, start, total) ==
    FindTotalFrom(rows, start, start, total)

(* the end_idx loop: next row after start carrying any date value, 0 if none *)
RECURSIVE NextDateRowFrom(_, _)
NextDateRowFrom(rows, idx) ==
    IF idx > Len(rows) THEN 0
    ELSE IF Len(rows[idx].cells) <= COL_DATE THEN NextDateRowFrom(rows, idx + 1)
    ELSE IF Truthy(GetCellValue(Cell(rows[idx], COL_DATE))) THEN idx
    ELSE NextDateRowFrom(rows, idx + 1)

(* end_idx != -1 and new_idx >= end_idx *)
BeyondEnd(newIdx, endIdx) == endIdx # 0 /\ newIdx >= endIdx

(* the search given up after the first failed total match *)
ResumeNowhere(rows, s) == Len(rows) + 1

(* idx = new_idx; ...; idx += 1: the store search resumes after the store  *)
(* row whose total did not match                                           *)
ResumeAt(rows, s) == s + 1

(* the while loop of _process_bill_row_for_duplicate *)
RECURSIVE DupLoop(_, _, _, _, _)
DupLoop(rows, start, endIdx, idx, crit) ==
    LET s == GetStoreFromBillStart(rows, idx, crit.store) IN
    IF s = 0 THEN FALSE
    ELSE IF s < start THEN FALSE
    ELSE IF BeyondEnd(s, endIdx) THEN FALSE
    ELSE IF FindTotalInBillGroup(rows, s, crit.total) # 0 THEN TRUE
    ELSE DupLoop(rows, start, endIdx, ResumeAt(rows, s), crit)

(* one iteration of the while loop: the index the store search starts     *)
(* from, the store row it returns (0 for None), and whether the function   *)
(* returns in this iteration                                               *)
Iteration(idx, s, returns) == [idx |-> idx, store |-> s, returns |-> returns]

(* the loop resuming on the store row it has just tried; cut off after     *)
(* fuel iterations                                                         *)
RECURSIVE DupLoopStuck(_, _, _, _, _, _)
DupLoopStuck(rows, start, endIdx, idx, crit, fuel) ==
    LET s == GetStoreFromBillStart(rows, idx, crit.store)
        returns == \/ s = 0
                   \/ s < start
                   \/ BeyondEnd(s, endIdx)
                   \/ FindTotalInBillGroup(rows, s, crit.total) # 0
    IN IF returns \/ fuel <= 1 THEN <<Iteration(idx, s, returns)>>
       ELSE <<Iteration(idx, s, FALSE)>>
            \o DupLoopStuck(rows, start, endIdx, s, crit, fuel - 1)

(* the iterations of the while loop of _process_bill_row_for_duplicate, in *)
(* order; the record is cut off after fuel iterations                      *)
RECURSIVE DupLoopTrace(_, _, _, _, _, _)
DupLoopTrace(rows, start, endIdx, idx, crit, fuel) ==
    LET s == GetStoreFromBillStart(rows, idx, crit.store)
        returns == \/ s = 0
                   \/ s < start
                   \/ BeyondEnd(s, endIdx)
                   \/ FindTotalInBillGroup(rows, s, crit.total) # 0
    IN IF returns \/ fuel <= 1 THEN <<Iteration(idx, s, returns)>>
       ELSE <<Iteration(idx, s, FALSE)>>
            \o DupLoopTrace(rows, start, endIdx, ResumeAt(rows, s), crit,
                            fuel - 1)

(* _process_bill_row_for_duplicate *)
ProcessBillRowForDuplicate(rows, start, crit) ==
    IF ~HasMatchingDate(rows[start].cells, crit.date) THEN FALSE
    ELSE DupLoop(rows, start, NextDateRowFrom(rows, start + 1), start, crit)

(* _check_duplicate_bill, for a bill whose date parses *)
CheckDuplicateBill(d, bill) ==
    LET date == DParse(bill.date) IN
    IF ~HasSheet(d, SheetNameOf(date)) THEN FALSE
    ELSE LET rows == d[SheetNameOf(date)]
             crit == [date |-> IsoFormat(date),
                      store |-> Normalize(bill.store),
                      total |-> bill.total]
         IN \E idx \in 1..Len(rows) : ProcessBillRowForDuplicate(rows, idx, crit)

-----------------------------------------------------------------------------
(* Row builder, ods_rows.py, and the insertion engine, bill_inserter.py *)

(* table.TableRow(): no cell, no style *)
NewRow == [cells |-> <<>>, sty |-> ""]

(* a new cell carrying the style of a template cell *)
StyledCell(template) == [NewCell EXCEPT !.sty = template.sty]

(* create_item_row with store_name = None: one cell per template cell;     *)
(* total = 0 stands for total_price = None, and 0.0 is as false as None    *)
CreateItemRow(templateCells, rowStyle, item, total) ==
    [cells |-> [c \in 1..Len(templateCells) |->
                  LET new == StyledCell(templateCells[c]) IN
                  IF c - 1 = COL_ITEM THEN SetCellValue(new, Str(item.name))
                  ELSE IF c - 1 = COL_PRICE THEN SetCellValue(new, item.price)
                  ELSE IF c - 1 = COL_TOTAL /\ total # 0
                       THEN SetCellValue(new, Num(total))
                  ELSE AppendEmptyP(new)],
     sty |-> rowStyle]

(* the date row of _insert_single_bill_data: COL_TOTAL + 1 fresh cells *)
DateRow(bill) ==
    [cells |-> [c \in 1..(COL_TOTAL + 1) |->
                  IF c - 1 = COL_DATE THEN SetCellValue(NewCell, Str(bill.date))
                  ELSE IF c - 1 = COL_STORE
                       THEN SetCellValue(NewCell, Str(bill.store))
                  ELSE IF c - 1 = COL_ITEM
                       THEN SetCellValue(NewCell, Str(bill.items[1].name))
                  ELSE IF c - 1 = COL_PRICE
                       THEN SetCellValue(NewCell, bill.items[1].price)
                  ELSE IF c - 1 = COL_TOTAL
                       THEN (IF Len(bill.items) = 1
                             THEN SetCellValue(NewCell, Num(bill.total))
                             ELSE NewCell)
                  ELSE AppendEmptyP(NewCell)],
     sty |-> ""]

(* is_last_item = item == remaining_items[-1] *)
IsLastItem(items, k) == items[k] = items[Len(items)]

(* the rows of items 2..n, the total on the rows of the last item *)
ItemRows(cells, rowStyle, bill) ==
    [k \in 1..(Len(bill.items) - 1) |->
        CreateItemRow(cells, rowStyle, bill.items[k + 1],
                      IF IsLastItem(bill.items, k + 1) THEN bill.total ELSE 0)]

(* every cell of the target row cleared, not only its date cell *)
ClearRowOf(row) ==
    [row EXCEPT !.cells = [c \in 1..Len(row.cells) |->
                              ClearCellCompletely(row.cells[c])]]

(* the target row left as it was found *)
KeepDateOf(row) == row

(* the target row after "if len(cells) >= COL_DATE: clear_cell_completely" *)
ClearDateOf(row) ==
    IF Len(row.cells) > COL_DATE
    THEN [row EXCEPT !.cells[COL_DATE + 1] = ClearCellCompletely(@)]
    ELSE row

(* the new rows appended to the sheet instead of inserted before the target *)
AppendRows(rows, t, newRows) == rows \o newRows

(* target_sheet.insertBefore(new, target_row), for each new row in turn *)
InsertBefore(rows, t, newRows) ==
    SubSeq(rows, 1, t - 1) \o newRows \o SubSeq(rows, t, Len(rows))

(* lines 265-269: the exact date row, else the chronological insertion     *)
(* point, else find_last_row + 2                                           *)
TargetRowIdx(rows, bill) ==
    LET exact == FindDateRow(rows, DParse(bill.date))
        chrono == FindChronologicalInsertionPoint(rows, bill.date)
    IN IF exact # 0 THEN exact
       ELSE IF chrono # 0 THEN chrono
       ELSE FindLastRow(rows) + 2

(* a missing sheet treated as an error *)
SheetMissingRaises(d) == [doc |-> d, exc |-> TRUE]

(* lines 261-262: the derived sheet does not exist *)
SheetMissingOutcome(d) == [doc |-> d, exc |-> FALSE]

(* _insert_single_bill_data: the document it leaves and whether it raised *)
InsertSingleBillData(d, bill) ==
    LET date == DParse(bill.date)
        name == SheetNameOf(date)
    IN
    IF date = BadDate THEN [doc |-> d, exc |-> TRUE]
    ELSE IF ~HasSheet(d, name) THEN SheetMissingOutcome(d)
    ELSE
    LET rows == d[name]
        t == TargetRowIdx(rows, bill)
    IN
    IF t > Len(rows) THEN [doc |-> d, exc |-> TRUE]              \* rows[t]
    ELSE IF Len(rows[t].cells) = COL_DATE
         THEN [doc |-> d, exc |-> TRUE]                          \* cells[COL_DATE]
    ELSE
    LET target == ClearDateOf(rows[t])
        cleared == [rows EXCEPT ![t] = target]
    IN
    IF Len(bill.items) = 0
    THEN [doc |-> [d EXCEPT ![name] = cleared], exc |-> TRUE]    \* items[0]
    ELSE IF Len(bill.items) <= 1
    THEN [doc |-> [d EXCEPT ![name] =
                     InsertBefore(cleared, t, <<DateRow(bill), NewRow>>)],
          exc |-> FALSE]
    ELSE [doc |-> [d EXCEPT ![name] =
                     InsertBefore(cleared, t,
                        <<DateRow(bill)>>
                        \o ItemRows(target.cells, target.sty, bill)
                        \o <<NewRow>>)],
          exc |-> FALSE]

-----------------------------------------------------------------------------
(* Files, file_utils.py *)

NoDoc == <<>>
FileOf(d) == [ok |-> TRUE, doc |-> d]
Corrupt == [ok |-> FALSE, doc |-> NoDoc]
NoBackup == [exists |-> FALSE, content |-> Corrupt]

(* create_backup: shutil.copy2(file_path, backup_path) *)
CreateBackup(f) == [exists |-> TRUE, content |-> f]

(* restore_from_backup: shutil.copy2(backup_path, target_path) *)
RestoreFromBackup(b, f) == b.content

(* the backup moved, not copied, onto the ledger *)
RestoreMovesBackup(b) == NoBackup

(* the backup file after restore_from_backup: copy2 leaves its source *)
BackupAfterRestore(b) == b

(* remove_backup: os.remove if the file exists *)
RemoveBackup(b) == NoBackup

-----------------------------------------------------------------------------
(* the batch processed in the order supplied *)
Unsorted(b) == b

(* a sort that puts a bill ahead of the bills of its date already placed *)
RECURSIVE InsertAheadOfTies(_, _)
InsertAheadOfTies(s, bill) ==
    IF s = <<>> THEN <<bill>>
    ELSE IF DParse(s[Len(s)].date) < DParse(bill.date)
         THEN Append(s, bill)
         ELSE Append(InsertAheadOfTies(SubSeq(s, 1, Len(s) - 1), bill),
                     s[Len(s)])

(* sorted(bills_data, key = parsed date): a stable insertion sort *)
RECURSIVE InsertByDate(_, _)
InsertByDate(s, bill) ==
    IF s = <<>> THEN <<bill>>
    ELSE IF DParse(s[Len(s)].date) <= DParse(bill.date)
         THEN Append(s, bill)
         ELSE Append(InsertByDate(SubSeq(s, 1, Len(s) - 1), bill), s[Len(s)])

RECURSIVE SortUpTo(_, _)
SortUpTo(b, n) ==
    IF n = 0 THEN <<>> ELSE InsertByDate(SortUpTo(b, n - 1), b[n])

SortedBills(b) == SortUpTo(b, Len(b))

(* the key function raises for some bill of the batch *)
SortRaises(b) == \E k \in 1..Len(b) : DParse(b[k].date) = BadDate

(* the loop left before any bill is handed over *)
LoopSkipped(k, n) == TRUE

(* the for loop is over: every bill of sorted_bills has been handed over *)
AllInserted(k, n) == k > n

-----------------------------------------------------------------------------
(* The bills callers supply and the ledgers the file may hold at start *)

Item(name, price) == [name |-> name, price |-> price]
Bill(date, store, total, items) ==
    [date |-> date, store |-> store, total |-> total, items |-> items]

BillMilk == Bill("05.03.2024", "Edeka", 1190, <<Item("Milch", Num(1190))>>)
BillDeposit == Bill("5.3.24", "Rewe", 2500,
                    <<Item("Brot", Num(2000)), Item("Pfand", Num(250)),
                      Item("Pfand", Num(250))>>)
BillEarly == Bill("03.03.2024", " EDEKA ", 1190, <<Item("Milch", Str("1,19"))>>)
BillApril == Bill("15.04.2024", "Edeka", 1190, <<Item("Milch", Num(1190))>>)
BillNoItems == Bill("05.03.2024", "Lidl", 700, <<>>)
BillBadDate == Bill("kein Datum", "Edeka", 1190, <<Item("Milch", Num(1190))>>)
BillLate == Bill("20.03.2024", "Aldi", 3000,
                 <<Item("Wein", Num(2500)), Item("Pfand", Str("=2*0,25"))>>)

Bills == {BillMilk, BillDeposit, BillEarly, BillApril, BillNoItems,
          BillBadDate, BillLate}

(* the bills check_duplicate_bill is asked about: (date, store, total) *)
Query(date, store, total) == Bill(date, store, total, <<>>)
NoQuery == Query("", "", 0)
Queries == {Query("3.3.24", "Edeka", 4000)}

TextCell(s) == [NewCell EXCEPT !.vt = "string", !.txt = Str(s), !.sty = "ce1"]
NumCell(n) == [NewCell EXCEPT !.vt = "float", !.val = n, !.txt = NumText(n),
                              !.sty = "ce2"]
DateCell(iso) == [NewCell EXCEPT !.vt = "date", !.dval = iso,
                                 !.txt = Str("17.03.24"), !.sty = "ce3"]
BlankCell == [NewCell EXCEPT !.sty = "ce1"]

HeaderRow == [cells |-> <<BlankCell, TextCell("Datum"), TextCell("Laden"),
                          TextCell("Artikel"), TextCell("Preis"),
                          TextCell("Summe")>>,
              sty |-> "ro1"]
BillRow(dateCell, store, item, price, total) ==
    [cells |-> <<BlankCell, dateCell, TextCell(store), TextCell(item),
                 NumCell(price), NumCell(total)>>,
     sty |-> "ro1"]
BlankRow == [cells |-> <<BlankCell, BlankCell, BlankCell, BlankCell,
                         BlankCell, BlankCell>>,
             sty |-> "ro1"]
ShortRow == [cells |-> <<BlankCell>>, sty |-> "ro1"]

(* a header, one bill, room below *)
LedgerA == [s \in {"Mar 24"} |->
              <<HeaderRow,
                BillRow(DateCell("2024-03-17"), "Aldi", "Brot", 4000, 4000),
                BlankRow, BlankRow, BlankRow>>]
(* two bills of one store on adjacent rows, one blank row below *)
LedgerB == [s \in {"Mar 24"} |->
              <<BillRow(TextCell("03.03.2024"), "Edeka", "Kaffee", 5990, 5990),
                BillRow(DateCell("2024-03-17"), " EDEKA ", "Brot", 4000, 4000),
                BlankRow>>]
(* one bill, a blank row and the collapsed tail row of one cell *)
LedgerC == [s \in {"Mar 24"} |->
              <<BillRow(DateCell("2024-03-17"), "Aldi", "Brot", 4000, 4000),
                BlankRow, ShortRow>>]

(* a dated row that ends with its price cell (five cells, no total cell),  *)
(* and a second bill entered by hand under the same date                   *)
FiveCellBillRow(dateCell, store, item, price) ==
    [cells |-> <<BlankCell, dateCell, TextCell(store), TextCell(item),
                 NumCell(price)>>,
     sty |-> "ro1"]
LedgerD == [s \in {"Mar 24"} |->
              <<BlankRow,
                FiveCellBillRow(TextCell("20.03.2024"), "Aldi", "Brot", 4000),
                BillRow(TextCell("20.03.2024"), "Rewe", "Saft", 2000, 2000)>>]

Ledgers == {LedgerA, LedgerB, LedgerC, LedgerD}

-----------------------------------------------------------------------------
(* process_multiple_bills as a state machine *)

Resting == {"Idle", "BackupRemoved", "Failed"}

Init ==
    /\ file \in {FileOf(l) : l \in Ledgers}
    /\ backup = NoBackup
    /\ doc = NoDoc
    /\ pc = "Idle"
    /\ batch = <<>>
    /\ sorted = <<>>
    /\ i = 1
    /\ raised = FALSE
    /\ loads = 0
    /\ saves = 0
    /\ handed = <<>>
    /\ fileBefore = file
    /\ calls = 0
    /\ processed = 0
    /\ dupQuery = NoQuery
    /\ dupResult = FALSE
    /\ theCell = NewCell
    /\ written = <<>>

(* the caller's side of a call: a new batch, the per-call records reset *)
CanEnter == pc \in Resting /\ calls < MaxCalls

Enter(b) ==
    /\ CanEnter
    /\ processed + Len(b) <= MaxProcessed
    /\ batch' = b
    /\ calls' = calls + 1
    /\ processed' = processed + Len(b)
    /\ fileBefore' = file
    /\ doc' = NoDoc
    /\ i' = 1
    /\ loads' = 0
    /\ saves' = 0
    /\ handed' = <<>>
    /\ UNCHANGED <<file, dupQuery, dupResult, theCell,
                   written>>

(* lines 337-339: no bills *)
CallEmpty ==
    /\ Enter(<<>>)
    /\ pc' = "Idle"
    /\ raised' = FALSE
    /\ sorted' = <<>>
    /\ UNCHANGED backup

(* the ParserError of the sort key caught and dropped *)
SortErrorSwallowed == FALSE

(* lines 342-344 stand before the try block: the error of the sort key     *)
(* leaves process_multiple_bills                                           *)
SortErrorReachesCaller == TRUE

(* lines 342-344: the sort key raises; nothing has been touched yet *)
CallSortRaises ==
    /\ CanEnter
    /\ \E n \in 1..(MaxProcessed - processed) : \E b \in [1..n -> Bills] :
        /\ Enter(b)
        /\ SortRaises(b)
        /\ pc' = "Failed"
        /\ raised' = SortErrorReachesCaller
        /\ sorted' = <<>>
        /\ UNCHANGED backup

(* lines 342-347: sort, then create_backup *)
CallBackup ==
    /\ CanEnter
    /\ \E n \in 1..(MaxProcessed - processed) : \E b \in [1..n -> Bills] :
        /\ Enter(b)
        /\ ~SortRaises(b)
        /\ sorted' = SortedBills(b)
        /\ backup' = CreateBackup(file)
        /\ pc' = "BackedUp"
        /\ raised' = FALSE

(* line 352: load *)
Load ==
    /\ pc = "BackedUp"
    /\ file.ok
    /\ doc' = file.doc
    /\ loads' = loads + 1
    /\ pc' = "Loaded"
    /\ UNCHANGED <<file, backup, batch, sorted, i, raised, saves, handed,
                   fileBefore, calls, processed, dupQuery, dupResult,
                   theCell, written>>

(* line 352: load raises (an I/O error) *)
LoadRaises ==
    /\ pc = "BackedUp"
    /\ loads' = loads + 1
    /\ pc' = "RestoringBackup"
    /\ UNCHANGED <<file, backup, doc, batch, sorted, i, raised, saves, handed,
                   fileBefore, calls, processed, dupQuery, dupResult,
                   theCell, written>>

(* lines 355-359: one turn of the loop, the insertion returns *)
Insert ==
    /\ pc \in {"Loaded", "Inserting"}
    /\ ~AllInserted(i, Len(sorted))
    /\ LET r == InsertSingleBillData(doc, sorted[i]) IN
        /\ ~r.exc
        /\ doc' = r.doc
    /\ handed' = Append(handed, sorted[i])
    /\ i' = i + 1
    /\ pc' = "Inserting"
    /\ UNCHANGED <<file, backup, batch, sorted, raised, loads, saves,
                   fileBefore, calls, processed, dupQuery, dupResult,
                   theCell, written>>

(* lines 355-359 and 369: the insertion raises *)
InsertRaises ==
    /\ pc \in {"Loaded", "Inserting"}
    /\ ~AllInserted(i, Len(sorted))
    /\ LET r == InsertSingleBillData(doc, sorted[i]) IN
        /\ r.exc
        /\ doc' = r.doc
    /\ handed' = Append(handed, sorted[i])
    /\ pc' = "RestoringBackup"
    /\ UNCHANGED <<file, backup, batch, sorted, i, raised, loads, saves,
                   fileBefore, calls, processed, dupQuery, dupResult,
                   theCell, written>>

(* line 363: doc.save *)
Save ==
    /\ pc \in {"Loaded", "Inserting"}
    /\ AllInserted(i, Len(sorted))
    /\ file' = FileOf(doc)
    /\ saves' = saves + 1
    /\ pc' = "Saved"
    /\ UNCHANGED <<backup, doc, batch, sorted, i, raised, loads, handed,
                   fileBefore, calls, processed, dupQuery, dupResult,
                   theCell, written>>

(* line 363: doc.save raises, the file untouched or half written *)
SaveRaises ==
    /\ pc \in {"Loaded", "Inserting"}
    /\ AllInserted(i, Len(sorted))
    /\ file' \in {file, Corrupt}
    /\ saves' = saves + 1
    /\ pc' = "RestoringBackup"
    /\ UNCHANGED <<backup, doc, batch, sorted, i, raised, loads, handed,
                   fileBefore, calls, processed, dupQuery, dupResult,
                   theCell, written>>

(* line 367: remove_backup *)
RemoveBackupStep ==
    /\ pc = "Saved"
    /\ backup' = RemoveBackup(backup)
    /\ pc' = "BackupRemoved"
    /\ UNCHANGED <<file, doc, batch, sorted, i, raised, loads, saves, handed,
                   fileBefore, calls, processed, dupQuery, dupResult,
                   theCell, written>>

(* line 367: os.remove raises *)
RemoveBackupRaises ==
    /\ pc = "Saved"
    /\ pc' = "RestoringBackup"
    /\ UNCHANGED <<file, backup, doc, batch, sorted, i, raised, loads, saves,
                   handed, fileBefore, calls, processed, dupQuery, dupResult,
                   theCell, written>>

(* the handler swallows the exception *)
Swallows == FALSE

(* line 372: raise *)
Reraises == TRUE

(* lines 369-372: restore_from_backup, then raise *)
Restore ==
    /\ pc = "RestoringBackup"
    /\ file' = RestoreFromBackup(backup, file)
    /\ backup' = BackupAfterRestore(backup)
    /\ raised' = Reraises
    /\ pc' = "Failed"
    /\ UNCHANGED <<doc, batch, sorted, i, loads, saves, handed, fileBefore,
                   calls, processed, dupQuery, dupResult,
                   theCell, written>>

(* check_duplicate_bill: load the file, run the detector on the bill *)
CheckDuplicate ==
    /\ pc = "Asked"
    /\ pc' = "Answered"
    /\ dupResult' = CheckDuplicateBill(file.doc, dupQuery)
    /\ UNCHANGED <<file, backup, doc, batch, sorted, i, raised, loads, saves,
                   handed, fileBefore, calls, processed, dupQuery,
                   theCell, written>>

Next ==
    \/ CallEmpty
    \/ CallSortRaises
    \/ CallBackup
    \/ Load
    \/ LoadRaises
    \/ Insert
    \/ InsertRaises
    \/ Save
    \/ SaveRaises
    \/ RemoveBackupStep
    \/ RemoveBackupRaises
    \/ Restore

Spec == Init /\ [][Next]_vars

-----------------------------------------------------------------------------
(* The duplicate detector on its own: check_duplicate_bill asked about one *)
(* bill, the file holding any sheet of at most MaxRows rows.  Rows are of  *)
(* full width, of five cells (nothing after the price column) or without   *)
(* cells (the separator rows the insertion engine leaves).                 *)
MaxRows == 4

MarkCell(s) == IF s = "" THEN BlankCell ELSE TextCell(s)
AmountCell(n) == IF n = 0 THEN BlankCell ELSE NumCell(n)

FullRow(d, st, t) ==
    [cells |-> <<BlankCell, MarkCell(d), MarkCell(st), BlankCell, BlankCell,
                 AmountCell(t)>>,
     sty |-> "ro1"]
FiveCellRow(d, st) ==
    [cells |-> <<BlankCell, MarkCell(d), MarkCell(st), BlankCell, BlankCell>>,
     sty |-> "ro1"]

SheetRows ==
    {NewRow, FullRow("", "Aldi", 0)}
    \cup {FullRow(d, " EDEKA ", 4000) : d \in {"", "03.03.2024", "20.03.2024"}}
    \cup {FullRow(d, " EDEKA ", 0) : d \in {"", "03.03.2024"}}
    \cup {FullRow("", "", 4000)}
    \cup {FullRow("03.03.2024", " EDEKA ", 4005),
          FullRow("03.03.2024", " EDEKA ", 4020)}
    \cup {FiveCellRow(d, " EDEKA ") : d \in {"", "20.03.2024"}}

Sheets == UNION {[1..n -> SheetRows] : n \in 1..MaxRows}

InitDup ==
    /\ file \in {FileOf([s \in {"Mar 24"} |-> rows]) : rows \in Sheets}
    /\ dupQuery \in Queries
    /\ dupResult = FALSE
    /\ pc = "Asked"
    /\ backup = NoBackup
    /\ doc = NoDoc
    /\ batch = <<>>
    /\ sorted = <<>>
    /\ i = 1
    /\ raised = FALSE
    /\ loads = 0
    /\ saves = 0
    /\ handed = <<>>
    /\ fileBefore = file
    /\ calls = 0
    /\ processed = 0
    /\ theCell = NewCell
    /\ written = <<>>

NextDup == CheckDuplicate

SpecDup == InitDup /\ [][NextDup]_vars

-----------------------------------------------------------------------------
(* The cell codec on its own: set_cell_value writes up to MaxWrites values *)
(* to one cell.  The cell starts as the ledger files hold cells: new,      *)
(* blank, a number, a date, a formula with its cached result, a string.    *)
MaxWrites == 3

FormulaCell == [NewCell EXCEPT !.vt = "float", !.val = 500,
                               !.fml = "=2*0.25", !.txt = NumText(500),
                               !.sty = "ce2"]

PriorCells == {NewCell, BlankCell, NumCell(4000), DateCell("2024-03-17"),
               FormulaCell, TextCell("Brot")}

(* the values bills carry: prices as numbers, decimal text or formulas,    *)
(* names as text                                                           *)
WriteValues == {Num(1190), Str("1,19"), Str("=2*0,25"), Str("Milch"), Empty}

InitCell ==
    /\ theCell \in PriorCells
    /\ written = <<>>
    /\ pc = "Cell"
    /\ file = FileOf(LedgerA)
    /\ backup = NoBackup
    /\ doc = NoDoc
    /\ batch = <<>>
    /\ sorted = <<>>
    /\ i = 1
    /\ raised = FALSE
    /\ loads = 0
    /\ saves = 0
    /\ handed = <<>>
    /\ fileBefore = file
    /\ calls = 0
    /\ processed = 0
    /\ dupQuery = NoQuery
    /\ dupResult = FALSE

(* set_cell_value(cell, v) on the cell *)
WriteCell ==
    /\ pc = "Cell"
    /\ Len(written) < MaxWrites
    /\ \E v \in WriteValues :
        /\ theCell' = SetCellValue(theCell, v)
        /\ written' = Append(written, v)
    /\ UNCHANGED <<file, backup, doc, pc, batch, sorted, i, raised, loads,
                   saves, handed, fileBefore, calls, processed, dupQuery,
                   dupResult>>

NextCell == WriteCell

SpecCell == InitCell /\ [][NextCell]_vars

-----------------------------------------------------------------------------
(* Vocabulary of the claims *)

(* the call ended because _insert_single_bill_data raised: the bill at     *)
(* index i was handed over and i did not advance                           *)
InsertionThrew == Len(handed) = i /\ handed # <<>>

(* the same bill: same calendar date, same store, same total *)
SameBill(a, b) ==
    /\ DParse(a.date) = DParse(b.date)
    /\ Normalize(a.store) = Normalize(b.store)
    /\ a.total = b.total

BillSheetExists(d, bill) ==
    DParse(bill.date) # BadDate /\ HasSheet(d, SheetNameOf(DParse(bill.date)))

(* the loop is about to hand sorted[i] to the insertion engine *)
AboutToInsert == pc \in {"Loaded", "Inserting"} /\ i <= Len(sorted)

(* the bill about to be inserted has been inserted before: earlier in this *)
(* batch, or by an earlier batch whose result the file held at the start   *)
InsertedBefore ==
    /\ AboutToInsert
    /\ BillSheetExists(doc, sorted[i])
    /\ \/ \E k \in 1..(i - 1) : SameBill(sorted[k], sorted[i])
       \/ CheckDuplicateBill(fileBefore.doc, sorted[i])

(* the date markers of a sheet are in non-decreasing order *)
Chronological(rows) ==
    \A a, b \in 1..Len(rows) :
        (a < b /\ RowDate(rows[a]) # BadDate /\ RowDate(rows[b]) # BadDate)
            => RowDate(rows[a]) <= RowDate(rows[b])

DocChronological(d) == \A name \in DOMAIN d : Chronological(d[name])

DatedRows(rows) == {p \in 1..Len(rows) : RowDate(rows[p]) # BadDate}

Count(s, x) == Cardinality({k \in 1..Len(s) : s[k] = x})

IsPermutation(s, t) ==
    Len(s) = Len(t) /\ \A x \in Bills : Count(s, x) = Count(t, x)

SortedByDate(s) ==
    \A a, b \in 1..Len(s) : a < b => DParse(s[a].date) <= DParse(s[b].date)

(* the bill groups of a sheet, read off its markers: row s carries a store *)
(* marker, row q is the date marker governing it, row r is the first row   *)
(* of the store's sub-group holding a numeric total                        *)
DateMarker(row) ==
    Len(row.cells) > COL_DATE /\ Truthy(GetCellValue(Cell(row, COL_DATE)))
StoreMarker(row) ==
    Len(row.cells) > COL_STORE /\ Truthy(GetCellValue(Cell(row, COL_STORE)))
NumericTotal(row) ==
    /\ Len(row.cells) > COL_TOTAL
    /\ Truthy(GetCellValue(Cell(row, COL_TOTAL)))
    /\ PriceNumber(GetCellValue(Cell(row, COL_TOTAL))) # NoVal

IsBillGroup(rows, q, s, r) ==
    /\ q <= s /\ s <= r
    /\ DateMarker(rows[q]) /\ RowDate(rows[q]) # BadDate
    /\ \A p \in (q + 1)..s : ~DateMarker(rows[p])
    /\ StoreMarker(rows[s])
    /\ \A p \in (s + 1)..r : ~DateMarker(rows[p]) /\ ~StoreMarker(rows[p])
    /\ NumericTotal(rows[r])
    /\ \A p \in s..(r - 1) : ~NumericTotal(rows[p])

ExistingBills(rows) ==
    LET Marked == {q \in 1..Len(rows) : DateMarker(rows[q])}
        Stores(q) == {s \in q..Len(rows) : StoreMarker(rows[s])}
        Totals(s) == {r \in s..Len(rows) : NumericTotal(rows[r])}
        Groups == UNION {UNION {{<<q, s, r>> : r \in Totals(s)} : s \in Stores(q)} :
                           q \in Marked}
    IN {[date |-> RowDate(rows[t[1]]),
         store |-> Normalize(GetCellValue(Cell(rows[t[2]], COL_STORE)).s),
         total |-> PriceNumber(GetCellValue(Cell(rows[t[3]], COL_TOTAL)))] :
            t \in {g \in Groups : IsBillGroup(rows, g[1], g[2], g[3])}}

(* the bills of the sheet the asked bill belongs to *)
AskedSheetBills == ExistingBills(file.doc[SheetNameOf(DParse(dupQuery.date))])

Abs(n) == IF n < 0 THEN 0 - n ELSE n

(* epsilon of _BillSearchCriteria, 0.01, in thousandths *)
Epsilon == 10

-----------------------------------------------------------------------------
(* C1: when the insertion of some bill of the batch raised and the call has *)
(* exited, the ledger file holds exactly what it held before the call and   *)
(* the exception has reached the caller.                                    *)
C1_Rollback ==
    (pc = "Failed" /\ InsertionThrew) => (file = fileBefore /\ raised)

C1_Witness ==
    /\ pc = "Failed" /\ InsertionThrew
    /\ i >= 2
    /\ doc # fileBefore.doc

(* C2: handing the insertion engine a bill that has been inserted before    *)
(* (in this batch or an earlier one) leaves the document as it is.          *)
C2_Idempotence == [][InsertedBefore => doc' = doc]_vars

(* C3: in every state of a call that started from a chronologically ordered *)
(* ledger, the date markers of every sheet of the document are in           *)
(* non-decreasing order.                                                    *)
C3_Chronological ==
    (doc # NoDoc /\ pc # "RestoringBackup" /\ DocChronological(fileBefore.doc))
        => DocChronological(doc)

C3_Witness ==
    /\ pc = "Inserting"
    /\ Len(handed) >= 2
    /\ batch # sorted
    /\ Cardinality(DatedRows(doc["Mar 24"])) >= 3
    /\ doc # fileBefore.doc

(* C4: a call loads the document at most once and saves it at most once; on *)
(* the success path it has loaded once and saved once, the save coming      *)
(* after every bill of the batch was handed to the engine, and no save      *)
(* happens while bills remain.                                              *)
C4_LoadSaveOnce ==
    /\ loads <= 1 /\ saves <= 1
    /\ pc \in {"Loaded", "Inserting", "Saved", "BackupRemoved"} => loads = 1
    /\ pc \in {"Saved", "BackupRemoved"} =>
          (saves = 1 /\ Len(handed) = Len(batch) /\ handed = sorted)
    /\ pc \in {"BackedUp", "Loaded", "Inserting"} => saves = 0

C4_Witness ==
    /\ pc = "BackupRemoved"
    /\ Len(batch) >= 3
    /\ loads = 1 /\ saves = 1
    /\ file # fileBefore

(* C5: the call moves Idle, BackedUp, Loaded, Inserting(1..n), Saved,       *)
(* BackupRemoved; the backup exists, holding the file's content, before the *)
(* document is loaded or anything is written; it is removed only by the     *)
(* step after a successful save; an exception from BackedUp on leads to     *)
(* RestoringBackup and then Failed, the backup still there.                 *)
C5_Step ==
    /\ pc \in Resting => pc' \in {"Idle", "Failed", "BackedUp"}
    /\ pc = "BackedUp" => pc' \in {"Loaded", "RestoringBackup"}
    /\ pc = "Loaded" => pc' \in {"Inserting", "RestoringBackup"}
    /\ pc = "Inserting" => pc' \in {"Inserting", "Saved", "RestoringBackup"}
    /\ pc = "Saved" => pc' \in {"BackupRemoved", "RestoringBackup"}
    /\ pc = "RestoringBackup" => pc' = "Failed"
    /\ pc' = "BackedUp" =>
          (backup'.exists /\ backup'.content = file /\ file' = file
           /\ doc' = NoDoc)
    /\ pc' = "Inserting" => (i' = i + 1 /\ i \in 1..Len(sorted))
    /\ pc' = "Saved" => (i = Len(sorted) + 1 /\ file' = FileOf(doc))
    /\ (doc' # doc /\ doc' # NoDoc) => (backup.exists /\ backup' = backup)
    /\ file' # file => backup.exists
    /\ (backup.exists /\ ~backup'.exists) =>
          (pc = "Saved" /\ pc' = "BackupRemoved" /\ file = FileOf(doc))
    /\ pc' \in {"RestoringBackup", "Failed"} /\ pc # "Failed" /\ pc # "Idle"
          /\ pc # "BackupRemoved" => backup'.exists

C5_StateOrder == [][C5_Step]_vars

C5_Witness ==
    /\ pc = "Failed" /\ InsertionThrew
    /\ i >= 2
    /\ backup.exists /\ backup.content = fileBefore

(* C6: the bills are handed to the insertion engine in non-decreasing order *)
(* of calendar date, and the processing sequence is a permutation of the    *)
(* caller's batch.                                                          *)
C6_SortedInput ==
    pc \notin Resting =>
        /\ SortedByDate(sorted)
        /\ IsPermutation(sorted, batch)
        /\ Len(handed) <= Len(sorted)
        /\ handed = SubSeq(sorted, 1, Len(handed))

C6_Witness ==
    /\ pc = "Saved"
    /\ batch # sorted
    /\ Len(handed) >= 3
    /\ \E k \in 1..(Len(batch) - 1) :
          DParse(batch[k].date) > DParse(batch[k + 1].date)

(* C7: a reported duplicate has an existing bill of the same store and      *)
(* total under a marker of the asked date; a match under another date       *)
(* marker is not accepted.                                                  *)
C7_DateBounded ==
    (pc = "Answered" /\ dupResult) =>
        \E b \in AskedSheetBills :
            /\ b.store = Normalize(dupQuery.store)
            /\ b.total = dupQuery.total
            /\ b.date = DParse(dupQuery.date)

(* C8: when the sheet holds bills of the asked date and store and each of   *)
(* their totals differs from the asked total by more than 0.01, no          *)
(* duplicate is reported.                                                   *)
SameDateStore(b) ==
    b.date = DParse(dupQuery.date) /\ b.store = Normalize(dupQuery.store)

C8_TotalDiffers ==
    (pc = "Answered"
     /\ (\E b \in AskedSheetBills : SameDateStore(b))
     /\ \A b \in AskedSheetBills :
            SameDateStore(b) => Abs(b.total - dupQuery.total) > Epsilon)
        => ~dupResult

(* C9: a bill of the asked date and store whose total differs from the      *)
(* asked total by exactly 0.005 makes the detector report a duplicate.      *)
C9_Tolerance ==
    (pc = "Answered"
     /\ \E b \in AskedSheetBills :
            SameDateStore(b) /\ Abs(b.total - dupQuery.total) = 5)
        => dupResult

(* C10: a bill whose derived sheet does not exist is skipped: the document  *)
(* (its sheets and every row of them) stays as it is, nothing is raised and *)
(* the loop goes on to the next bill.                                       *)
MissingSheet(d, bill) ==
    DParse(bill.date) # BadDate /\ ~HasSheet(d, SheetNameOf(DParse(bill.date)))

EmptyBillHanded ==
    AboutToInsert /\ sorted[i].items = <<>> /\ BillSheetExists(doc, sorted[i])

C11_EmptyItemsNoMutation ==
    [][EmptyBillHanded => (doc' = doc /\ pc' = "RestoringBackup")]_vars

(* C12: a call whose batch holds a malformed date ends with the exception   *)
(* at the caller, no bill handed to the engine or saved, and the ledger     *)
(* file as it was before the call.                                          *)
HasMalformedDate(b) == \E k \in 1..Len(b) : DParse(b[k].date) = BadDate

C12_MalformedDateFatal ==
    (pc \in Resting /\ HasMalformedDate(batch)) =>
        (pc = "Failed" /\ raised /\ file = fileBefore /\ saves = 0)

C12_Witness ==
    /\ pc = "Failed" /\ raised
    /\ Len(batch) >= 2
    /\ DParse(batch[1].date) # BadDate
    /\ DParse(batch[2].date) = BadDate
    /\ BillSheetExists(fileBefore.doc, batch[1])

(* Vocabulary of the insertion claims: the bill about to be handed over,   *)
(* its sheet, the target row, and what a row holds                         *)
CurBill == sorted[i]
CurSheet == SheetNameOf(DParse(CurBill.date))
CurRows == doc[CurSheet]
CurTarget == TargetRowIdx(CurRows, CurBill)

(* the insertion engine takes CurBill and returns *)
InsertionReturns == AboutToInsert /\ BillSheetExists(doc, CurBill) /\ pc' = "Inserting"

ValueAt(row, c) ==
    IF Len(row.cells) > c THEN GetCellValue(Cell(row, c)) ELSE Empty
NumberAt(row, c) == PriceNumber(ValueAt(row, c))

(* the number an item price stands for: a number, or decimal text *)
ItemPriceValue(price) ==
    IF price.k = "num" THEN price.n ELSE FloatOfString(price.s)

HoldsItem(row, item) ==
    /\ ValueAt(row, COL_ITEM) = Str(item.name)
    /\ \/ NumberAt(row, COL_PRICE) = ItemPriceValue(item.price)
       \/ (IsFormula(item.price.s) /\ Cell(row, COL_PRICE).fml # "")
HoldsTotal(row, bill) == NumberAt(row, COL_TOTAL) = bill.total
HoldsDateStore(row, bill) ==
    /\ ValueAt(row, COL_DATE) = Str(bill.date)
    /\ ValueAt(row, COL_STORE) = Str(bill.store)

(* a separator: a row none of whose cells holds a value *)
IsSeparator(row) == ~RowHasData(row)

(* C13: a one-item bill whose date has no row in its sheet: where the       *)
(* target row was there is now a separator row, and right after it the date *)
(* row with the bill's date, store, item name, price and total.             *)
OneItemNoDateRow ==
    /\ InsertionReturns
    /\ Len(CurBill.items) = 1
    /\ FindDateRow(CurRows, DParse(CurBill.date)) = 0

C13_LeadingSeparator ==
    [][OneItemNoDateRow =>
        LET new == doc'[CurSheet] IN
        /\ Len(new) = Len(CurRows) + 2
        /\ IsSeparator(new[CurTarget])
        /\ HoldsDateStore(new[CurTarget + 1], CurBill)
        /\ HoldsItem(new[CurTarget + 1], CurBill.items[1])
        /\ HoldsTotal(new[CurTarget + 1], CurBill)]_vars

(* C14: a bill of n >= 2 items put at a date row that holds prior data.    *)
(* From the date row's position on: the date row with store and item 1,    *)
(* the rows of items 2..n with the total on item n, one separator, the     *)
(* prior row with a blank date column, then the rows that followed.        *)
PriorData(row) ==
    \E c \in COL_STORE..COL_TOTAL : Truthy(ValueAt(row, c))

ManyItemsAtDataRow ==
    /\ InsertionReturns
    /\ Len(CurBill.items) >= 2
    /\ FindDateRow(CurRows, DParse(CurBill.date)) # 0
    /\ PriorData(CurRows[CurTarget])

C14_GroupLayout ==
    [][ManyItemsAtDataRow =>
        LET new == doc'[CurSheet]
            t == CurTarget
            n == Len(CurBill.items)
        IN
        /\ Len(new) = Len(CurRows) + n + 1
        /\ SubSeq(new, 1, t - 1) = SubSeq(CurRows, 1, t - 1)
        /\ HoldsDateStore(new[t], CurBill)
        /\ HoldsItem(new[t], CurBill.items[1])
        /\ \A k \in 2..n :
              /\ HoldsItem(new[t + k - 1], CurBill.items[k])
              /\ ~Truthy(ValueAt(new[t + k - 1], COL_DATE))
              /\ ~Truthy(ValueAt(new[t + k - 1], COL_STORE))
        /\ HoldsTotal(new[t + n - 1], CurBill)
        /\ IsSeparator(new[t + n])
        /\ ~Truthy(ValueAt(new[t + n + 1], COL_DATE))
        /\ \A c \in COL_STORE..COL_TOTAL :
              ValueAt(new[t + n + 1], c) = ValueAt(CurRows[t], c)
        /\ SubSeq(new, t + n + 2, Len(new)) = SubSeq(CurRows, t + 1, Len(CurRows))]_vars

(* The rows one insertion adds: for a bill of n >= 1 items the n + 1 rows   *)
(* from the target position on (date row, item rows, separator).           *)
AddsRows == InsertionReturns /\ Len(CurBill.items) >= 1
AddedPositions == CurTarget..(CurTarget + Len(CurBill.items))
TemplateRow == CurRows[CurTarget]

(* C15: every row an insertion adds has, column by column, the cell style  *)
(* of the template row (the target row of the insertion).                  *)
C15_StylePreserved ==
    [][AddsRows =>
        \A p \in AddedPositions : \A c \in 1..Len(TemplateRow.cells) :
            /\ Len(doc'[CurSheet][p].cells) >= c
            /\ doc'[CurSheet][p].cells[c].sty = TemplateRow.cells[c].sty]_vars

(* C16: the rows of an inserted group that hold a total are exactly one:   *)
(* the date row when the bill has one item, the row of the last item       *)
(* otherwise.                                                              *)
TotalRows(rows, from, to) ==
    {p \in from..to : Truthy(ValueAt(rows[p], COL_TOTAL))}

C16_TotalOnce ==
    [][AddsRows =>
        LET n == Len(CurBill.items) IN
        /\ TotalRows(doc'[CurSheet], CurTarget, CurTarget + n - 1)
              = {CurTarget + n - 1}
        /\ HoldsTotal(doc'[CurSheet][CurTarget + n - 1], CurBill)]_vars

(* C17: every row an insertion adds has as many cells as the template row. *)
C17_ColumnCount ==
    [][AddsRows =>
        \A p \in AddedPositions :
            Len(doc'[CurSheet][p].cells) = Len(TemplateRow.cells)]_vars

(* C18: an insertion at a date row holding data keeps every store, item,   *)
(* price and total value of the sheet, in order: the rows above stay, the  *)
(* prior row (its non-date columns) and the rows after it follow the new   *)
(* group.                                                                  *)
AtDataRow ==
    /\ AddsRows
    /\ FindDateRow(CurRows, DParse(CurBill.date)) # 0
    /\ PriorData(TemplateRow)

C18_Coexist ==
    [][AtDataRow =>
        LET new == doc'[CurSheet]
            t == CurTarget
            n == Len(CurBill.items)
        IN
        /\ Len(new) = Len(CurRows) + n + 1
        /\ SubSeq(new, 1, t - 1) = SubSeq(CurRows, 1, t - 1)
        /\ \A c \in COL_STORE..COL_TOTAL :
              ValueAt(new[t + n + 1], c) = ValueAt(CurRows[t], c)
        /\ SubSeq(new, t + n + 2, Len(new))
              = SubSeq(CurRows, t + 1, Len(CurRows))]_vars

C18_Witness ==
    /\ pc = "Inserting"
    /\ Len(handed) = 2
    /\ DParse(handed[1].date) = DParse(handed[2].date)
    /\ BillSheetExists(doc, handed[1])
    /\ \E p, q \in 1..Len(doc["Mar 24"]) :
          /\ p < q
          /\ ValueAt(doc["Mar 24"][p], COL_STORE) = Str(handed[2].store)
          /\ ValueAt(doc["Mar 24"][q], COL_STORE) = Str(handed[1].store)
          /\ ~Truthy(ValueAt(doc["Mar 24"][q], COL_DATE))

(* Vocabulary of the detector claims: the sheet asked about, the store     *)
(* rows that match the asked store, and the first row of a scan that       *)
(* carries a marker (beyond the start row) or a numeric total              *)
AskedRows == file.doc[SheetNameOf(DParse(dupQuery.date))]

MatchesStore(row) ==
    /\ StoreMarker(row)
    /\ Normalize(GetCellValue(Cell(row, COL_STORE)).s) = Normalize(dupQuery.store)

ScanEvents(rows, s) ==
    {p \in s..Len(rows) :
        \/ p # s /\ (DateMarker(rows[p]) \/ StoreMarker(rows[p]))
        \/ NumericTotal(rows[p])}

FirstEvent(rows, s) ==
    CHOOSE p \in ScanEvents(rows, s) : \A o \in ScanEvents(rows, s) : p <= o

(* what the total scan is to return from store row s: the row of the first *)
(* numeric total when it equals the target and no marker row comes before  *)
(* or on it, no match (0) otherwise                                        *)
ExpectedTotalRow(rows, s, total) ==
    IF ScanEvents(rows, s) = {} THEN 0
    ELSE LET p == FirstEvent(rows, s) IN
         IF p # s /\ (DateMarker(rows[p]) \/ StoreMarker(rows[p])) THEN 0
         ELSE IF NumberAt(rows[p], COL_TOTAL) = total THEN p
         ELSE 0

(* C19: from every matched store row the total scan ends with no match at  *)
(* the first later row carrying a date or store marker and at the first    *)
(* numeric total differing from the target; it returns the row of the      *)
(* first numeric total only when that total equals the target.             *)
C19_TotalScan ==
    pc = "Answered" =>
        \A s \in 1..Len(AskedRows) :
            MatchesStore(AskedRows[s]) =>
                FindTotalInBillGroup(AskedRows, s, dupQuery.total)
                    = ExpectedTotalRow(AskedRows, s, dupQuery.total)

(* C20: a bill matching any group of its store under the marker of its     *)
(* date is reported, and a reported duplicate rests on a store row that    *)
(* lies at or after a marker of the asked date and before the next date    *)
(* marker.                                                                 *)
AcceptedStoreRow(rows, q, s) ==
    /\ q <= s
    /\ HasMatchingDate(rows[q].cells, IsoFormat(DParse(dupQuery.date)))
    /\ \A p \in (q + 1)..s : ~DateMarker(rows[p])
    /\ MatchesStore(rows[s])

C20_AnyGroup ==
    pc = "Answered" =>
        /\ (\E b \in AskedSheetBills :
                SameDateStore(b) /\ b.total = dupQuery.total) => dupResult
        /\ dupResult =>
              \E q, s \in 1..Len(AskedRows) :
                  /\ AcceptedStoreRow(AskedRows, q, s)
                  /\ FindTotalInBillGroup(AskedRows, s, dupQuery.total) # 0

C20_Witness ==
    /\ pc = "Answered" /\ dupResult
    /\ Cardinality({p \in 1..Len(AskedRows) : DateMarker(AskedRows[p])}) = 1
    /\ \E s1, s2 \in 1..Len(AskedRows) :
          /\ s1 < s2
          /\ AcceptedStoreRow(AskedRows, 1, s1)
          /\ AcceptedStoreRow(AskedRows, 1, s2)
          /\ FindTotalInBillGroup(AskedRows, s1, dupQuery.total) = 0
          /\ FindTotalInBillGroup(AskedRows, s2, dupQuery.total) # 0
          /\ \A s \in 1..(s2 - 1) :
                MatchesStore(AskedRows[s]) =>
                    FindTotalInBillGroup(AskedRows, s, dupQuery.total) = 0

(* Vocabulary of the store scan: a row carries the target store; a row as  *)
(* wide as the store scan reads (more than COL_STORE cells) carries a date *)
StoreIs(row, store) ==
    /\ StoreMarker(row)
    /\ Normalize(GetCellValue(Cell(row, COL_STORE)).s) = store

WideDateMarker(row) == Len(row.cells) > COL_STORE /\ DateMarker(row)

First(S) == CHOOSE p \in S : \A o \in S : p <= o

(* the store scan that gives up only at a date marker: rows of another     *)
(* store are passed over                                                   *)
StoreRowPassingStores(rows, s, store) ==
    LET ev == {p \in s..Len(rows) :
                  \/ p # s /\ WideDateMarker(rows[p])
                  \/ StoreIs(rows[p], store)}
    IN IF ev = {} THEN 0
       ELSE IF First(ev) # s /\ WideDateMarker(rows[First(ev)]) THEN 0
       ELSE First(ev)

(* the store scan that gives up at a date marker and at a marker of        *)
(* another store alike                                                     *)
StoreRowStoppingAtStores(rows, s, store) ==
    LET ev == {p \in s..Len(rows) :
                  \/ p # s /\ (DateMarker(rows[p]) \/ StoreMarker(rows[p]))
                  \/ StoreIs(rows[p], store)}
    IN IF ev = {} THEN 0
       ELSE IF First(ev) # s /\ (DateMarker(rows[First(ev)])
                                 \/ ~StoreIs(rows[First(ev)], store)) THEN 0
       ELSE First(ev)

NoDateRowCase ==
    /\ AboutToInsert
    /\ BillSheetExists(doc, CurBill)
    /\ Len(CurBill.items) >= 1
    /\ FindDateRow(CurRows, DParse(CurBill.date)) = 0

LaterRows ==
    {p \in 1..Len(CurRows) :
        RowDate(CurRows[p]) # BadDate /\ RowDate(CurRows[p]) > DParse(CurBill.date)}

C22_TargetPosition ==
    [][NoDateRowCase =>
        /\ CurTarget \in 1..Len(CurRows)
        /\ LaterRows # {} => CurTarget = First(LaterRows)
        /\ LaterRows = {} => CurTarget > FindLastRow(CurRows)
        /\ pc' = "Inserting" =>
              HoldsDateStore(doc'[CurSheet][CurTarget], CurBill)]_vars

(* C23: find_date_row returns the smallest position whose date cell holds  *)
(* text that parses to the target date, and None (0) when there is none;   *)
(* rows without a date cell, empty date cells and date cells that do not   *)
(* parse are passed over.                                                  *)
DateCellParsesTo(row, target) ==
    /\ Len(row.cells) > COL_DATE
    /\ ValueAt(row, COL_DATE).k = "str"
    /\ ValueAt(row, COL_DATE).s # ""
    /\ DParse(ValueAt(row, COL_DATE).s) = target

RowsDated(rows, target) ==
    {p \in 1..Len(rows) : DateCellParsesTo(rows[p], target)}

C23_FindDateRow ==
    (AboutToInsert /\ BillSheetExists(doc, CurBill)) =>
        LET m == RowsDated(CurRows, DParse(CurBill.date)) IN
        FindDateRow(CurRows, DParse(CurBill.date))
            = IF m = {} THEN 0 ELSE First(m)

(* two rows carry the bill's date, below a row whose date cell is empty or *)
(* does not parse                                                          *)
C23_Witness ==
    /\ AboutToInsert /\ BillSheetExists(doc, CurBill)
    /\ Cardinality(RowsDated(CurRows, DParse(CurBill.date))) >= 2
    /\ FindDateRow(CurRows, DParse(CurBill.date)) >= 2
    /\ \E p \in 1..Len(CurRows) :
          /\ p < FindDateRow(CurRows, DParse(CurBill.date))
          /\ RowDate(CurRows[p]) = BadDate

(* C24: after set_cell_value(cell, v) on a cell in any prior state the     *)
(* value-type tag agrees with the stored attributes, no value, date-value  *)
(* or formula attribute of the previous content remains, and               *)
(* get_cell_value returns what was written, as it does on a new cell.      *)
TagAgrees(c) ==
    CASE c.vt = "float" -> (c.val # NoVal \/ c.fml # "") /\ c.dval = ""
      [] c.vt = "date" -> c.dval # "" /\ c.val = NoVal /\ c.fml = ""
      [] c.vt = "string" -> c.val = NoVal /\ c.dval = "" /\ c.fml = ""
      [] OTHER -> c.val = NoVal /\ c.dval = "" /\ c.fml = ""

LastWritten == written[Len(written)]

(* the attributes the write of v sets on a cell that had none *)
FreshlyWritten(v) == SetCellValue(NewCell, v)

NoLeftover(c, v) ==
    /\ c.val = FreshlyWritten(v).val
    /\ c.dval = FreshlyWritten(v).dval
    /\ c.fml = FreshlyWritten(v).fml

C24_CellAgreement ==
    (pc = "Cell" /\ written # <<>>) =>
        /\ TagAgrees(theCell)
        /\ NoLeftover(theCell, LastWritten)
        /\ GetCellValue(theCell) = GetCellValue(FreshlyWritten(LastWritten))

(* C25: once doc.save has written the ledger file, no later step of the    *)
(* same call changes the file: a failure while the backup is removed does  *)
(* not put the content of before the batch back.                           *)
SavedContentOnDisk ==
    \/ pc = "Saved"
    \/ pc = "RestoringBackup" /\ saves = 1 /\ file = FileOf(doc)

C25_SavedPersists ==
    [][SavedContentOnDisk => file' = file]_vars

(* C26: an insertion changes the date marker of no row it found in the     *)
(* sheet, but for the row that already carried the bill's date; when the   *)
(* date had no row, the row at the insertion point keeps its date cell.    *)
AddedCount == Len(doc'[CurSheet]) - Len(CurRows)

(* where the row found at position p stands after the insertion *)
Shifted(p) == IF p < CurTarget THEN p ELSE p + AddedCount

OwnDateRow(p) ==
    p = CurTarget /\ FindDateRow(CurRows, DParse(CurBill.date)) # 0

C26_DateMarkerFrame ==
    [][AddsRows =>
        \A p \in 1..Len(CurRows) :
            ~OwnDateRow(p) =>
                ValueAt(doc'[CurSheet][Shifted(p)], COL_DATE)
                    = ValueAt(CurRows[p], COL_DATE)]_vars

(* C27: a bill the engine has inserted into the document is reported as a  *)
(* duplicate by _check_duplicate_bill right after its insertion, and stays *)
(* reported after every later insertion of another bill, in the same call  *)
(* or in a later one.                                                      *)
InsertedSoFar ==
    {handed[k] : k \in {j \in 1..Len(handed) : BillSheetExists(doc, handed[j])}}

(* no ledger holds a bill of Bills at start: a bill of Bills the file held *)
(* when a later call began was inserted by an earlier call                 *)
InsertedByEarlierCall ==
    {b \in Bills : calls > 1 /\ fileBefore.ok
                      /\ CheckDuplicateBill(fileBefore.doc, b)}

C27_DetectionPersists ==
    [][AddsRows =>
        /\ CheckDuplicateBill(doc', CurBill)
        /\ \A b \in InsertedSoFar \cup InsertedByEarlierCall :
              CheckDuplicateBill(doc, b) => CheckDuplicateBill(doc', b)]_vars

NoBillAtStart ==
    calls = 0 => \A b \in Bills : ~CheckDuplicateBill(file.doc, b)

(* C28: in a sheet where no two rows carry the same calendar date as their *)
(* date marker, an insertion leaves it so; when the bill's date already    *)
(* has a row, the marker moves to the first row of the new bill and the    *)
(* row that carried it carries none afterwards.                            *)
MarkersUnique(rows) ==
    \A p, q \in 1..Len(rows) :
        (RowDate(rows[p]) # BadDate /\ RowDate(rows[p]) = RowDate(rows[q]))
            => p = q

MarkerMoved ==
    FindDateRow(CurRows, DParse(CurBill.date)) # 0 =>
        /\ RowDate(doc'[CurSheet][CurTarget]) = DParse(CurBill.date)
        /\ HoldsDateStore(doc'[CurSheet][CurTarget], CurBill)
        /\ ~DateMarker(doc'[CurSheet][Shifted(CurTarget)])

C28_MarkerUnique ==
    [][(AddsRows /\ MarkersUnique(CurRows)) =>
        MarkersUnique(doc'[CurSheet]) /\ MarkerMoved]_vars

(* a second bill of a date has been inserted on the row of the first, the  *)
(* sheet holding bills of two dates                                        *)
C28_Witness ==
    /\ pc = "Inserting" /\ Len(handed) >= 2
    /\ BillSheetExists(doc, handed[1])
    /\ DParse(handed[1].date) = DParse(handed[2].date)
    /\ MarkersUnique(doc[SheetNameOf(DParse(handed[1].date))])
    /\ HoldsDateStore(doc[SheetNameOf(DParse(handed[1].date))]
                         [FindDateRow(doc[SheetNameOf(DParse(handed[1].date))],
                                      DParse(handed[1].date))],
                      handed[2])
    /\ \E p \in 1..Len(doc[SheetNameOf(DParse(handed[1].date))]) :
          /\ RowDate(doc[SheetNameOf(DParse(handed[1].date))][p]) # BadDate
          /\ RowDate(doc[SheetNameOf(DParse(handed[1].date))][p])
                # DParse(handed[1].date)

(* C29: on every sheet the store/total loop of                             *)
(* _process_bill_row_for_duplicate ends: from one iteration to the next    *)
(* the search index strictly increases, every row is the store row of at   *)
(* most one iteration, and the last iteration returns.                     *)
AskedCriteria ==
    [date |-> IsoFormat(DParse(dupQuery.date)),
     store |-> Normalize(dupQuery.store),
     total |-> dupQuery.total]

(* the iterations of the loop entered at row start, recorded for more      *)
(* iterations than the sheet has rows                                      *)
LoopFrom(start) ==
    DupLoopTrace(AskedRows, start, NextDateRowFrom(AskedRows, start + 1),
                 start, AskedCriteria, Len(AskedRows) + 2)

LoopEntered(start) ==
    HasMatchingDate(AskedRows[start].cells, AskedCriteria.date)

(* the iteration returns True: a store row in the group whose total matches *)
FoundIn(it, start) ==
    /\ it.store # 0
    /\ it.store >= start
    /\ ~BeyondEnd(it.store, NextDateRowFrom(AskedRows, start + 1))
    /\ FindTotalInBillGroup(AskedRows, it.store, AskedCriteria.total) # 0

C29_ScanTerminates ==
    pc = "Answered" =>
        \A start \in 1..Len(AskedRows) :
            LoopEntered(start) =>
                LET tr == LoopFrom(start) IN
                /\ tr[Len(tr)].returns
                /\ \A k \in 1..(Len(tr) - 1) :
                      /\ tr[k + 1].idx > tr[k].idx
                      /\ tr[k + 1].store = 0 \/ tr[k + 1].store > tr[k].store
                /\ Len(tr) <= Len(AskedRows) - start + 2
                /\ ProcessBillRowForDuplicate(AskedRows, start, AskedCriteria)
                      = FoundIn(tr[Len(tr)], start)

(* a scan of three iterations: two store rows of the asked store whose     *)
(* totals do not match, then the end of the rows                           *)
C29_Witness ==
    /\ pc = "Answered"
    /\ \E start \in 1..Len(AskedRows) :
          /\ LoopEntered(start)
          /\ Len(LoopFrom(start)) >= 3
          /\ LoopFrom(start)[3].idx > LoopFrom(start)[2].idx

(* C30: bills of one batch that have the same date are handed over in the  *)
(* order the caller supplied them, and the one inserted later lands on the *)
(* row that carried the date marker: it carries the marker afterwards and  *)
(* the earlier one stands below it, without a marker.                      *)
OfDate(bills, d) ==
    LET HasDate(b) == DParse(b.date) = d IN SelectSeq(bills, HasDate)

CallerOrderKept ==
    pc \notin Resting =>
        /\ \A k \in 1..Len(batch) :
              OfDate(sorted, DParse(batch[k].date))
                  = OfDate(batch, DParse(batch[k].date))
        /\ handed = SubSeq(sorted, 1, Len(handed))

FollowsSameDate ==
    /\ AddsRows
    /\ i >= 2
    /\ DParse(sorted[i - 1].date) = DParse(CurBill.date)

LandsAbove ==
    LET new == doc'[CurSheet]
        below == CurTarget + Len(CurBill.items) + 1
    IN
    /\ ValueAt(CurRows[CurTarget], COL_STORE) = Str(sorted[i - 1].store)
    /\ RowDate(CurRows[CurTarget]) = DParse(CurBill.date)
    /\ HoldsDateStore(new[CurTarget], CurBill)
    /\ RowDate(new[CurTarget]) = DParse(CurBill.date)
    /\ ValueAt(new[below], COL_STORE) = Str(sorted[i - 1].store)
    /\ ~DateMarker(new[below])

C30_SameDateOrder ==
    [][CallerOrderKept' /\ (FollowsSameDate => LandsAbove)]_vars

(* a batch the sort reorders, its two bills of one date inserted one after *)
(* the other in the caller's order                                         *)
C30_Witness ==
    /\ pc = "Inserting"
    /\ batch # sorted
    /\ Len(handed) = 3
    /\ BillSheetExists(doc, handed[3])
    /\ DParse(handed[2].date) = DParse(handed[3].date)
    /\ handed[2].store # handed[3].store
    /\ HoldsDateStore(doc[SheetNameOf(DParse(handed[3].date))]
                         [FindDateRow(doc[SheetNameOf(DParse(handed[3].date))],
                                      DParse(handed[3].date))],
                      handed[3])

=============================================================================
